---- MODULE Spec2Model ----
(***************************************************************************)
(* Model of source/main.cpp (C++ Console IO): one linear sequence of       *)
(* statements over the two process-wide streams std::cin and std::cout.    *)
(* Characters are one-character strings; text is a sequence of characters. *)
(* The user types whole lines (or closes the input); every read blocks     *)
(* until the stream can decide its result.  A line is typed when the one   *)
(* before it has been extracted: a read takes no more than it needs, so    *)
(* the program sees the same characters as when they are typed ahead.      *)
(***************************************************************************)
EXTENDS Integers, Sequences, FiniteSets, TLC

\* ------------------------------------------------------------------ bounds
\* By how many characters the over-long typed lines exceed a buffer's room.
Over == 1

\* ------------------------------------------------------- program constants
WordsCap == 64
InputCap == 256
IntMax == 2147483647
DefaultPrecision == 6

NL == "\n"
NUL == "NUL"
Uninit == "UNINIT"
SP == " "

\* ----------------------------------------------------------------- helpers
Min(a, b) == IF a < b THEN a ELSE b

\* The only element of a one-element set.
The(S) == CHOOSE v \in S : TRUE

Take(s, k) == SubSeq(s, 1, Min(k, Len(s)))

Drop(s, k) == SubSeq(s, k + 1, Len(s))

Rep(c, n) == [i \in 1..n |-> c]

\* Index of the first element of s in set cs, Len(s)+1 when there is none.
FirstIn(s, cs) ==
    The({ IF \E i \in 1..Len(t) : t[i] \in cs
          THEN CHOOSE i \in 1..Len(t) : t[i] \in cs /\ \A j \in 1..(i - 1) : t[j] \notin cs
          ELSE Len(t) + 1 : t \in {s} })

\* Index of the first element of s outside cs, Len(s)+1 when there is none.
FirstNotIn(s, cs) ==
    The({ IF \E i \in 1..Len(t) : t[i] \notin cs
          THEN CHOOSE i \in 1..Len(t) : t[i] \notin cs /\ \A j \in 1..(i - 1) : t[j] \in cs
          ELSE Len(t) + 1 : t \in {s} })

IsPrefix(p, s) == Len(p) <= Len(s) /\ Take(s, Len(p)) = p

\* isspace() in the "C" locale, over the characters the model uses.
Space == {" ", "\n", "\t"}

Digit == {"0", "1", "2", "3", "4", "5", "6", "7", "8", "9"}

DigitVal(c) ==
    CASE c = "0" -> 0 [] c = "1" -> 1 [] c = "2" -> 2 [] c = "3" -> 3
      [] c = "4" -> 4 [] c = "5" -> 5 [] c = "6" -> 6 [] c = "7" -> 7
      [] c = "8" -> 8 [] c = "9" -> 9

DigitChar(d) == <<"0", "1", "2", "3", "4", "5", "6", "7", "8", "9">>[d + 1]

\* --------------------------------------------------------- string literals
LitPressEnter == <<"P", "r", "e", "s", "s", " ", "e", "n", "t", "e", "r", " ", "t", "o", " ", "c", "o", "n", "t", "i", "n", "u", "e", ".">>
LitWordsCannotDescribe == <<"w", "o", "r", "d", "s", " ", "c", "a", "n", "n", "o", "t", " ", "d", "e", "s", "c", "r", "i", "b", "e">>
LitTypeSomething == <<"t", "y", "p", "e", " ", "s", "o", "m", "e", "t", "h", "i", "n", "g", ":">>
LitYouTyped == <<"Y", "o", "u", " ", "t", "y", "p", "e", "d", ":", " ">>
LitInputANumber == <<"i", "n", "p", "u", "t", " ", "a", " ", "n", "u", "m", "b", "e", "r", ":", " ">>
LitYouInput == <<"y", "o", "u", " ", "i", "n", "p", "u", "t", ":", " ">>
LitDoubled == <<"d", "o", "u", "b", "l", "e", "d", ":", " ">>

\* 9.99999f is the float 9.9999904632568359375: its decimal digits, the
\* first one standing for units (decimal exponent 0).
FloatDigits == <<9, 9, 9, 9, 9, 9, 0, 4, 6, 3, 2, 5, 6, 8, 3, 5, 9, 3, 7, 5>>
FloatExp == 0

\* ============================================================ std::istream
\* A stream is [buf, eof, fail]: the characters not yet extracted, eofbit
\* and failbit.  atEnd says the input has been closed, so that an empty buf
\* is end-of-file rather than a reason to wait.
Good(s) == ~s.fail /\ ~s.eof

SetFail(s) == [s EXCEPT !.fail = TRUE]

\* A sentry that does not look at the error state: a failed stream reads on.
sentry_noerr(s, atEnd, noskipws) ==
    IF noskipws THEN [ok |-> TRUE, blocked |-> FALSE, cin |-> s]
    ELSE LET b == Drop(s.buf, FirstNotIn(s.buf, Space) - 1) IN
         IF b # <<>> THEN [ok |-> TRUE, blocked |-> FALSE, cin |-> [s EXCEPT !.buf = b]]
         ELSE IF atEnd
              THEN [ok |-> FALSE, blocked |-> FALSE,
                    cin |-> [buf |-> <<>>, eof |-> TRUE, fail |-> TRUE]]
              ELSE [ok |-> FALSE, blocked |-> TRUE, cin |-> [s EXCEPT !.buf = <<>>]]

\* istream::sentry: a stream that is not good() gets failbit and the read is
\* abandoned; otherwise formatted reads first extract leading whitespace.
sentry(s, atEnd, noskipws) ==
    IF ~Good(s) THEN [ok |-> FALSE, blocked |-> FALSE, cin |-> SetFail(s)]
    ELSE IF noskipws THEN [ok |-> TRUE, blocked |-> FALSE, cin |-> s]
    ELSE LET b == Drop(s.buf, FirstNotIn(s.buf, Space) - 1) IN
         IF b # <<>> THEN [ok |-> TRUE, blocked |-> FALSE, cin |-> [s EXCEPT !.buf = b]]
         ELSE IF atEnd
              THEN [ok |-> FALSE, blocked |-> FALSE,
                    cin |-> [buf |-> <<>>, eof |-> TRUE, fail |-> TRUE]]
              ELSE [ok |-> FALSE, blocked |-> TRUE, cin |-> [s EXCEPT !.buf = <<>>]]

\* A get() that discards the rest of the line, newline included.
get_line(s, atEnd) ==
    IF ~Good(s) THEN [blocked |-> FALSE, cin |-> SetFail(s)]
    ELSE IF s.buf # <<>>
         THEN [blocked |-> FALSE,
               cin |-> [s EXCEPT !.buf = Drop(s.buf, Min(FirstIn(s.buf, {NL}), Len(s.buf)))]]
    ELSE IF atEnd
         THEN [blocked |-> FALSE, cin |-> [s EXCEPT !.eof = TRUE, !.fail = TRUE]]
         ELSE [blocked |-> TRUE, cin |-> s]

\* A get() that extracts nothing.
get_nothing(s, atEnd) ==
    IF ~Good(s) THEN [blocked |-> FALSE, cin |-> SetFail(s)]
    ELSE IF s.buf # <<>> THEN [blocked |-> FALSE, cin |-> s]
    ELSE IF atEnd
         THEN [blocked |-> FALSE, cin |-> [s EXCEPT !.eof = TRUE, !.fail = TRUE]]
         ELSE [blocked |-> TRUE, cin |-> s]

\* A get() that goes on waiting at the end of the input.
get_hang(s, atEnd) ==
    IF ~Good(s) THEN [blocked |-> FALSE, cin |-> SetFail(s)]
    ELSE IF s.buf # <<>> THEN [blocked |-> FALSE, cin |-> [s EXCEPT !.buf = Tail(s.buf)]]
    ELSE [blocked |-> TRUE, cin |-> s]

\* int istream::get(): extracts one character.
get(s, atEnd) ==
    LET g == sentry(s, atEnd, TRUE) IN
    IF ~g.ok THEN [blocked |-> FALSE, cin |-> g.cin]
    ELSE IF s.buf # <<>> THEN [blocked |-> FALSE, cin |-> [s EXCEPT !.buf = Tail(s.buf)]]
    ELSE IF atEnd
         THEN [blocked |-> FALSE, cin |-> [s EXCEPT !.eof = TRUE, !.fail = TRUE]]
         ELSE [blocked |-> TRUE, cin |-> s]

\* Storing data and the terminating null character from index 0 of a char
\* array; the result is longer than the array when the store overruns it.
Store(arr, data) == data \o <<NUL>> \o Drop(arr, Len(data) + 1)

\* A get(s, n) that stores up to n characters before the null character.
get_n_full(s, atEnd, arr, n) ==
    IF ~Good(s) THEN [blocked |-> FALSE, cin |-> SetFail(s), arr |-> Store(arr, <<>>)]
    ELSE LET k == Min(FirstIn(s.buf, {NL}) - 1, n)
             hitEnd == k = Len(s.buf)
         IN IF hitEnd /\ ~atEnd THEN [blocked |-> TRUE, cin |-> s, arr |-> arr]
            ELSE [blocked |-> FALSE,
                  cin |-> [buf |-> Drop(s.buf, k), eof |-> hitEnd, fail |-> (k = 0)],
                  arr |-> Store(arr, Take(s.buf, k))]

\* istream::get(char* s, streamsize n): up to n-1 characters, the newline
\* stays in the stream.
get_n(s, atEnd, arr, n) ==
    LET g == sentry(s, atEnd, TRUE) IN
    IF ~g.ok THEN [blocked |-> FALSE, cin |-> g.cin, arr |-> Store(arr, <<>>)]
    ELSE LET k == Min(FirstIn(s.buf, {NL}) - 1, n - 1)
             hitEnd == k = Len(s.buf)
         IN IF hitEnd /\ ~atEnd THEN [blocked |-> TRUE, cin |-> s, arr |-> arr]
            ELSE [blocked |-> FALSE,
                  cin |-> [buf |-> Drop(s.buf, k), eof |-> hitEnd, fail |-> (k = 0)],
                  arr |-> Store(arr, Take(s.buf, k))]

\* istream::getline(char* s, streamsize n): up to n-1 characters, the
\* newline is extracted and dropped; a line that does not fit sets failbit.
getline(s, atEnd, arr, n) ==
    LET g == sentry(s, atEnd, TRUE) IN
    IF ~g.ok THEN [blocked |-> FALSE, cin |-> g.cin, arr |-> Store(arr, <<>>)]
    ELSE LET k == Min(FirstIn(s.buf, {NL}) - 1, n - 1)
             hitEnd == k = Len(s.buf)
         IN IF hitEnd /\ ~atEnd THEN [blocked |-> TRUE, cin |-> s, arr |-> arr]
            ELSE IF hitEnd
                 THEN [blocked |-> FALSE,
                       cin |-> [buf |-> <<>>, eof |-> TRUE, fail |-> (k = 0)],
                       arr |-> Store(arr, Take(s.buf, k))]
            ELSE IF s.buf[k + 1] = NL
                 THEN [blocked |-> FALSE,
                       cin |-> [s EXCEPT !.buf = Drop(s.buf, k + 1)],
                       arr |-> Store(arr, Take(s.buf, k))]
            ELSE [blocked |-> FALSE,
                  cin |-> [buf |-> Drop(s.buf, k), eof |-> FALSE, fail |-> TRUE],
                  arr |-> Store(arr, Take(s.buf, k))]

\* operator>>(istream&, std::string&): skips whitespace, then extracts up to
\* the next whitespace, which stays in the stream.
extract_string(s, atEnd, old) ==
    LET g == sentry(s, atEnd, FALSE) IN
    IF ~g.ok THEN [blocked |-> g.blocked, cin |-> g.cin, val |-> old]
    ELSE LET b == g.cin.buf
             k == FirstIn(b, Space) - 1
             hitEnd == k = Len(b)
         IN IF hitEnd /\ ~atEnd THEN [blocked |-> TRUE, cin |-> g.cin, val |-> old]
            ELSE [blocked |-> FALSE,
                  cin |-> [buf |-> Drop(b, k), eof |-> hitEnd, fail |-> FALSE],
                  val |-> Take(b, k)]

\* The decimal digits of INT_MAX, for range checks that never compute a
\* number beyond INT_MAX.
IntMaxDigits == <<"2", "1", "4", "7", "4", "8", "3", "6", "4", "7">>
IntMinMagDigits == <<"2", "1", "4", "7", "4", "8", "3", "6", "4", "8">>

\* A digit string without its leading zeros (one digit is kept).
StripZeros(ds) == IF ds = <<>> THEN ds ELSE Drop(ds, Min(FirstNotIn(ds, {"0"}), Len(ds)) - 1)

\* ds <= es for digit strings of equal length.
LexLeq(ds, es) ==
    \A i \in 1..Len(ds) :
        (\A j \in 1..(i - 1) : ds[j] = es[j]) => DigitVal(ds[i]) <= DigitVal(es[i])

MagFits(ds) ==
    \E z \in {StripZeros(ds)} :
        Len(z) < Len(IntMaxDigits) \/ (Len(z) = Len(IntMaxDigits) /\ LexLeq(z, IntMaxDigits))

\* The value of a digit string that MagFits (0 for the empty one).
MagVal(ds) ==
    The({ LET d(i) == IF i <= Len(z) THEN DigitVal(z[Len(z) + 1 - i]) ELSE 0
          IN d(1) + 10 * d(2) + 100 * d(3) + 1000 * d(4) + 10000 * d(5) + 100000 * d(6)
             + 1000000 * d(7) + 10000000 * d(8) + 100000000 * d(9) + 1000000000 * d(10) :
          z \in {StripZeros(ds)} })

\* The text of a decimal integer at the start of b: optional sign, digits.
ScanInt(b) ==
    The({ [neg |-> (sg = 1 /\ t[1] = "-"),
           ds |-> Take(Drop(t, sg), FirstNotIn(Drop(t, sg), Digit) - 1),
           used |-> sg + FirstNotIn(Drop(t, sg), Digit) - 1] :
          t \in {b}, sg \in {IF b # <<>> /\ b[1] \in {"-", "+"} THEN 1 ELSE 0} })

\* The value of the scanned text as an int, and whether it is out of range
\* (then v is the nearest int).
ToInt(neg, ds) ==
    IF MagFits(ds) THEN [ovf |-> FALSE, v |-> IF neg THEN 0 - MagVal(ds) ELSE MagVal(ds)]
    ELSE IF neg /\ StripZeros(ds) = IntMinMagDigits THEN [ovf |-> FALSE, v |-> (0 - IntMax) - 1]
    ELSE [ovf |-> TRUE, v |-> IF neg THEN (0 - IntMax) - 1 ELSE IntMax]

\* An extraction that takes the whole word and fails on what is not a digit.
extract_int_word(s, atEnd, old) ==
    IF ~Good(s) THEN [blocked |-> FALSE, cin |-> SetFail(s), val |-> old]
    ELSE LET b == Drop(s.buf, FirstNotIn(s.buf, Space) - 1)
             k == FirstIn(b, Space) - 1
             sc == ScanInt(b)
             bad == sc.used # k \/ sc.ds = <<>> \/ ~MagFits(sc.ds)
         IN IF k = Len(b) /\ ~atEnd
            THEN [blocked |-> TRUE, cin |-> [s EXCEPT !.buf = b], val |-> old]
            ELSE IF b = <<>>
            THEN [blocked |-> FALSE, cin |-> [buf |-> <<>>, eof |-> TRUE, fail |-> TRUE],
                  val |-> old]
            ELSE [blocked |-> FALSE,
                  cin |-> [buf |-> Drop(b, k), eof |-> (k = Len(b)), fail |-> bad],
                  val |-> [init |-> TRUE,
                           v |-> IF bad THEN 0 ELSE ToInt(sc.neg, sc.ds).v]]

\* operator>>(istream&, int&): skips whitespace, extracts sign and digits; no
\* digits stores 0 and sets failbit, a value out of range stores the nearest
\* int and sets failbit.  old is returned when the sentry refuses the read.
extract_int(s, atEnd, old) ==
    LET g == sentry(s, atEnd, FALSE) IN
    IF ~g.ok THEN [blocked |-> g.blocked, cin |-> g.cin, val |-> old]
    ELSE LET b == g.cin.buf
             sc == ScanInt(b)
             hitEnd == sc.used = Len(b)
             r == ToInt(sc.neg, sc.ds)
         IN IF hitEnd /\ ~atEnd THEN [blocked |-> TRUE, cin |-> g.cin, val |-> old]
            ELSE [blocked |-> FALSE,
                  cin |-> [buf |-> Drop(b, sc.used), eof |-> hitEnd,
                           fail |-> (sc.ds = <<>> \/ r.ovf)],
                  val |-> [init |-> TRUE, v |-> IF sc.ds = <<>> THEN 0 ELSE r.v]]

\* The characters of a char array up to its terminating null character.
CStr(arr) == Take(arr, FirstIn(arr, {NUL}) - 1)

\* What an out-of-range atoi() may return: the behaviour is undefined, and
\* the C libraries in use return INT_MAX, INT_MIN, or the low bits of the
\* clamped long.
AtoiOverflow == {IntMax, (0 - IntMax) - 1, 0 - 1}

\* A conversion of the digits at the very start of the text only.
atoi_digits(text) ==
    LET ds == Take(text, FirstNotIn(text, Digit) - 1) IN
    IF ds = <<>> THEN {0}
    ELSE IF ~MagFits(ds) THEN AtoiOverflow
    ELSE {MagVal(ds)}

\* atoi(): skips whitespace, converts sign and digits, 0 when there are none.
\* The set of values the call may return.
atoi(text) ==
    UNION { IF sc.ds = <<>> THEN {0}
            ELSE IF ToInt(sc.neg, sc.ds).ovf THEN AtoiOverflow
            ELSE {ToInt(sc.neg, sc.ds).v} :
            sc \in {ScanInt(Drop(text, FirstNotIn(text, Space) - 1))} }

\* y * 2 in int arithmetic (two's complement wrap when it overflows).
Half == 1073741823
Times2(v) ==
    IF v > Half THEN ((v - IntMax) - 1) * 2
    ELSE IF v < (0 - Half) - 1 THEN ((v + IntMax) + 1) * 2
    ELSE v * 2

\* ============================================================ std::ostream
\* The formatting state of a stream is [precision, width, fill, left].
Pow10 == <<1, 10, 100, 1000, 10000, 100000, 1000000, 10000000, 100000000, 1000000000>>

\* Decimal digits of v <= 0, computed without negating v.
NegDigits(v) ==
    LET n == Cardinality({k \in 1..Len(Pow10) : v <= 0 - Pow10[k]})
        len == IF n = 0 THEN 1 ELSE n
        \* v \div p rounded towards zero, for v <= 0
        quot(p) == (v + (p - 1)) \div p
    IN [i \in 1..len |->
          LET q == quot(Pow10[len + 1 - i])
              qq == IF i = 1 THEN 0 ELSE quot(Pow10[len + 2 - i])
          IN DigitChar(qq * 10 - q)]

\* num_put for int, decimal.
FormatInt(v) == IF v < 0 THEN <<"-">> \o NegDigits(v) ELSE NegDigits(0 - v)

\* A digit string plus one in the last place; one digit longer on carry out.
IncDigits(ds) ==
    LET low == {i \in 1..Len(ds) : ds[i] < 9} IN
    IF low = {} THEN <<1>> \o Rep(0, Len(ds))
    ELSE LET j == CHOOSE i \in low : \A k \in low : k <= i
         IN [i \in 1..Len(ds) |-> IF i < j THEN ds[i] ELSE IF i = j THEN ds[i] + 1 ELSE 0]

\* A digit string without its trailing zeros (one digit is kept).
StripTrailingZeros(ds) ==
    LET nz == {i \in 1..Len(ds) : ds[i] # 0} IN
    IF nz = {} THEN Take(ds, 1)
    ELSE Take(ds, CHOOSE i \in nz : \A k \in nz : k <= i)

DigitsText(ds) == The({ [i \in 1..Len(d) |-> DigitChar(d[i])] : d \in {ds} })

\* ds rounded to P digits, to nearest and to even on a tie; P + 1 digits
\* when the rounding carries out of the first one.
Round(ds, P) ==
    LET padded == ds \o Rep(0, IF Len(ds) > P THEN 0 ELSE P + 1 - Len(ds)) IN
    The({ IF \/ tail[1] > 5
             \/ (tail[1] = 5 /\ ((\E i \in 2..Len(tail) : tail[i] # 0) \/ head[P] % 2 = 1))
          THEN IncDigits(head) ELSE head :
          head \in {Take(padded, P)}, tail \in {Drop(padded, P)} })

\* The text of sig[1].sig[2]... * 10^X in the style %g picks for precision P.
Layout(sig, X, P) ==
    LET absX == IF X < 0 THEN 0 - X ELSE X IN
    IF X < 0 - 4 \/ X >= P
    THEN <<DigitChar(sig[1])>>
         \o (IF Len(sig) > 1 THEN <<".">> \o DigitsText(Drop(sig, 1)) ELSE <<>>)
         \o <<"e", IF X < 0 THEN "-" ELSE "+">>
         \o (IF absX < 10 THEN <<"0">> ELSE <<>>) \o FormatInt(absX)
    ELSE IF X >= 0
    THEN DigitsText(Take(sig \o Rep(0, X + 1), X + 1))
         \o (IF Len(sig) > X + 1 THEN <<".">> \o DigitsText(Drop(sig, X + 1)) ELSE <<>>)
    ELSE <<"0", ".">> \o Rep("0", absX - 1) \o DigitsText(sig)

\* num_put for a floating value with floatfield unset (printf %g): the value
\* d1.d2d3... * 10^e rounded to prec significant digits, trailing zeros gone.
FormatG(ds, e, prec) ==
    LET P == IF prec = 0 THEN 1 ELSE prec IN
    The(UNION { { Layout(sig, X, P) :
                      sig \in {StripTrailingZeros(Take(r, P))},
                      X \in {IF Len(r) > P THEN e + 1 ELSE e} } :
                r \in {Round(ds, P)} })

\* Padding of one formatted insertion to the field width.
Pad(f, txt) ==
    IF Len(txt) >= f.width THEN txt
    ELSE IF f.left THEN txt \o Rep(f.fill, f.width - Len(txt))
    ELSE Rep(f.fill, f.width - Len(txt)) \o txt

\* An insertion that leaves the field width as it was.
insert_keepwidth(f, txt) == [cout |-> f, text |-> Pad(f, txt)]

\* A formatted insertion (operator<<): pads the text, then width(0).
insert(f, txt) == [cout |-> [f EXCEPT !.width = 0], text |-> Pad(f, txt)]

\* A write that pads like a formatted insertion.
write_padded(f, src, n) == [cout |-> [f EXCEPT !.width = 0], text |-> Pad(f, Take(src, n))]

\* ostream::write(s, n): the first n characters, unformatted.
write(f, src, n) == [cout |-> f, text |-> Take(src, n)]

\* ostream::put(c): one character, unformatted.
put(f, c) == [cout |-> f, text |-> <<c>>]

\* A setw that has no effect.
setw_ignored(f, n) == f

\* ostream::precision(n), width(n), fill(c), setf(ios::left) and the
\* manipulators setw(n), setfill(c), setiosflags(ios::left).
precision(f, n) == [f EXCEPT !.precision = n]
width(f, n) == [f EXCEPT !.width = n]
fill(f, c) == [f EXCEPT !.fill = c]
setf(f) == [f EXCEPT !.left = TRUE]
setw(f, n) == [f EXCEPT !.width = n]
setfill(f, c) == [f EXCEPT !.fill = c]
setiosflags(f) == [f EXCEPT !.left = TRUE]

\* ================================================================== main()
I(op, arg, line) == [op |-> op, arg |-> arg, line |-> line]

\* The statements of main in program order, one entry per stream operation,
\* with the source line of each.
Prog == <<
    I("outlit", LitPressEnter, 34), I("get", 0, 37), I("leave", 0, 38),
    I("put", "x9D", 46), I("put", NL, 48), I("write", 4, 51), I("get", 0, 53),
    I("leave", 0, 54),
    I("outfloat", 0, 62), I("endl", 0, 62),
    I("precision", 3, 64), I("outfloat", 0, 65), I("endl", 0, 65),
    I("width", 10, 68), I("outfloat", 0, 69), I("endl", 0, 69),
    I("width", 10, 72), I("fill", "-", 73), I("outfloat", 0, 74), I("endl", 0, 74),
    I("width", 10, 77), I("fill", "-", 78), I("setf", 0, 79), I("outfloat", 0, 82),
    I("endl", 0, 82),
    I("setw", 10, 87), I("setfill", "-", 87), I("setiosflags", 0, 87),
    I("outfloat", 0, 87), I("endl", 0, 87),
    I("leave", 0, 90), I("get", 0, 91),
    I("outlit", LitTypeSomething, 99), I("endl", 0, 99),
    I("extract_string", 0, 102), I("get", 0, 104),
    I("outlit", LitYouTyped, 108), I("outstr", 0, 108), I("endl", 0, 108),
    I("outlit", LitTypeSomething, 118), I("endl", 0, 118),
    I("get_n", WordsCap, 120), I("get", 0, 123),
    I("outlit", LitYouTyped, 125), I("outcstr", 0, 125), I("endl", 0, 125),
    I("outlit", LitTypeSomething, 128), I("endl", 0, 128),
    I("getline", WordsCap, 130),
    I("outlit", LitYouTyped, 133), I("outcstr", 0, 133), I("endl", 0, 133),
    I("leave", 0, 135), I("get", 0, 136),
    I("outlit", LitInputANumber, 144), I("extract_int", 0, 145), I("get", 0, 151),
    I("outlit", LitYouInput, 153), I("outint", 0, 153), I("endl", 0, 153),
    I("outlit", LitInputANumber, 156), I("getline", InputCap, 160), I("atoi", 0, 163),
    I("outlit", LitDoubled, 165), I("outint", 0, 165), I("endl", 0, 165),
    I("leave", 0, 169), I("get", 0, 170), I("ret", 0, 171) >>

Done == Len(Prog) + 1

\* The index in Prog of the (first) operation op on source line l.
PcOf(op, l) ==
    CHOOSE i \in 1..Len(Prog) :
        /\ Prog[i].op = op /\ Prog[i].line = l
        /\ \A j \in 1..(i - 1) : ~(Prog[j].op = op /\ Prog[j].line = l)

\* ------------------------------------------------------------ what is typed
Txt500BC == <<"5", "0", "0", "B", "C">>

Typed == {
    <<>>,
    <<"a", "b">>,
    <<"h", "i", " ", "y", "o">>,
    <<" ", "7">>,
    <<"-", "5">>,
    <<"4", "2", "x">>,
    Txt500BC,
    Rep("w", WordsCap - 1),
    Rep("w", WordsCap - 1 + Over),
    Rep("w", WordsCap - 1) \o Txt500BC,
    Rep("1", InputCap - 1 + Over) }

\* What may stand, unterminated, before the end of the input.
LastTyped == { <<>>, <<"h", "i">>, <<"1", "2">> }

\* --------------------------------------------------------------- the state
VARIABLES pc, cin, closed, cout, out, input, words, x, input256, y,
          exit_code, log, lastRead, onTokenLine, tokenRest

vars == <<pc, cin, closed, cout, out, input, words, x, input256, y,
          exit_code, log, lastRead, onTokenLine, tokenRest>>

\* lastRead: which read ran last and the characters it extracted.
\* onTokenLine: the line of the token read at line 102 is not yet used up.
\* tokenRest: what followed that token on its line, newline included.
NoInt == [init |-> FALSE, v |-> 0]
NotExited == 0 - 1

Init ==
    /\ pc = 1
    /\ cin = [buf |-> <<>>, eof |-> FALSE, fail |-> FALSE]
    /\ closed = FALSE
    /\ cout = [precision |-> DefaultPrecision, width |-> 0, fill |-> SP, left |-> FALSE]
    /\ out = <<>>
    /\ input = <<>>
    /\ words = Rep(Uninit, WordsCap)
    /\ x = NoInt
    /\ input256 = Rep(Uninit, InputCap)
    /\ y = NoInt
    /\ exit_code = NotExited
    /\ log = <<>>
    /\ lastRead = [pc |-> 0, consumed |-> <<>>]
    /\ onTokenLine = FALSE
    /\ tokenRest = <<>>

At(op) == pc \in 1..Len(Prog) /\ Prog[pc].op = op

Advance == pc' = pc + 1 /\ log' = Append(log, pc)

\* The one result e of a stream operation, as a value.
One(e) == {e}

Emit(r) == cout' = r.cout /\ out' = Append(out, [line |-> Prog[pc].line, text |-> r.text])

\* The characters a read took out of the stream.
Used(before, after) == Take(before.buf, Len(before.buf) - Len(after.buf))

HasNL(s) == FirstIn(s, {NL}) <= Len(s)

Read(r) ==
    /\ cin' = r.cin
    /\ \E u \in One(Used(cin, r.cin)) : lastRead' = [pc |-> pc, consumed |-> u]

locals == <<input, words, x, input256, y>>
instream == <<cin, lastRead, onTokenLine, tokenRest>>

\* ----------------------------------------------------------------- output
OutLit ==
    /\ At("outlit") /\ \E r \in One(insert(cout, Prog[pc].arg)) : Emit(r)
    /\ Advance
    /\ UNCHANGED <<instream, closed, locals, exit_code>>

Endl ==
    /\ At("endl") /\ \E r \in One(put(cout, NL)) : Emit(r)
    /\ Advance
    /\ UNCHANGED <<instream, closed, locals, exit_code>>

Put ==
    /\ At("put") /\ \E r \in One(put(cout, Prog[pc].arg)) : Emit(r)
    /\ Advance
    /\ UNCHANGED <<instream, closed, locals, exit_code>>

Write ==
    /\ At("write")
    /\ \E r \in One(write(cout, LitWordsCannotDescribe, Prog[pc].arg)) : Emit(r)
    /\ Advance
    /\ UNCHANGED <<instream, closed, locals, exit_code>>

OutFloat ==
    /\ At("outfloat")
    /\ \E r \in One(insert(cout, FormatG(FloatDigits, FloatExp, cout.precision))) : Emit(r)
    /\ Advance
    /\ UNCHANGED <<instream, closed, locals, exit_code>>

OutStr ==
    /\ At("outstr") /\ \E r \in One(insert(cout, input)) : Emit(r)
    /\ Advance
    /\ UNCHANGED <<instream, closed, locals, exit_code>>

OutCStr ==
    /\ At("outcstr") /\ \E r \in One(insert(cout, CStr(words))) : Emit(r)
    /\ Advance
    /\ UNCHANGED <<instream, closed, locals, exit_code>>

\* What reading an int that was never assigned may yield.
Indeterminate == {0, 1, 0 - 1}

\* Line 153 inserts x, line 165 inserts y * 2.
OutInt ==
    /\ At("outint")
    /\ \E v \in (IF Prog[pc].line = 153
                 THEN (IF x.init THEN {x.v} ELSE Indeterminate)
                 ELSE {Times2(y.v)}) :
           \E r \in One(insert(cout, FormatInt(v))) : Emit(r)
    /\ Advance
    /\ UNCHANGED <<instream, closed, locals, exit_code>>

SetFmt(op, f) ==
    /\ At(op) /\ \E g \in One(f) : cout' = g
    /\ Advance
    /\ UNCHANGED <<instream, closed, locals, exit_code, out>>

Precision == SetFmt("precision", precision(cout, Prog[pc].arg))
Width == SetFmt("width", width(cout, Prog[pc].arg))
Fill == SetFmt("fill", fill(cout, Prog[pc].arg))
Setf == SetFmt("setf", setf(cout))
Setw == SetFmt("setw", setw(cout, Prog[pc].arg))
Setfill == SetFmt("setfill", setfill(cout, Prog[pc].arg))
Setiosflags == SetFmt("setiosflags", setiosflags(cout))

\* ------------------------------------------------------------------ input
Get ==
    /\ At("get")
    /\ \E r \in One(get(cin, closed)) :
        /\ ~r.blocked /\ Read(r)
        /\ onTokenLine' = (onTokenLine /\ ~HasNL(Used(cin, r.cin)))
    /\ Advance
    /\ UNCHANGED <<closed, cout, out, locals, exit_code, tokenRest>>

\* A formatted read that finds only whitespace extracts it and goes on
\* waiting for more.
ExtractString ==
    /\ At("extract_string")
    /\ \E r \in One(extract_string(cin, closed, input)) :
        \/ /\ ~r.blocked /\ Read(r) /\ input' = r.val /\ Advance
           /\ onTokenLine' = Good(cin)
           /\ \E t \in One(Take(r.cin.buf, FirstIn(r.cin.buf, {NL}))) :
                  tokenRest' = IF Good(cin) THEN t ELSE <<>>
        \/ /\ r.blocked /\ r.cin # cin /\ cin' = r.cin
           /\ UNCHANGED <<pc, log, input, lastRead, onTokenLine, tokenRest>>
    /\ UNCHANGED <<closed, cout, out, words, x, input256, y, exit_code>>

ExtractInt ==
    /\ At("extract_int")
    /\ \E r \in One(extract_int(cin, closed, x)) :
        \/ /\ ~r.blocked /\ Read(r) /\ x' = r.val /\ Advance
           /\ onTokenLine' = (onTokenLine /\ ~HasNL(Used(cin, r.cin)))
        \/ /\ r.blocked /\ r.cin # cin /\ cin' = r.cin
           /\ onTokenLine' = (onTokenLine /\ ~HasNL(Used(cin, r.cin)))
           /\ UNCHANGED <<pc, log, x, lastRead>>
    /\ UNCHANGED <<closed, cout, out, input, words, input256, y, exit_code, tokenRest>>

GetN ==
    /\ At("get_n")
    /\ \E r \in One(get_n(cin, closed, words, Prog[pc].arg)) :
        /\ ~r.blocked /\ Read(r) /\ words' = r.arr
        /\ onTokenLine' = (onTokenLine /\ ~HasNL(Used(cin, r.cin)))
    /\ Advance
    /\ UNCHANGED <<closed, cout, out, input, x, input256, y, exit_code, tokenRest>>

\* Line 130 reads into words, line 160 into input.
Getline ==
    /\ At("getline")
    /\ \E r \in One(getline(cin, closed, IF Prog[pc].line = 130 THEN words ELSE input256,
                              Prog[pc].arg)) :
          /\ ~r.blocked /\ Read(r)
          /\ IF Prog[pc].line = 130 THEN words' = r.arr /\ input256' = input256
                                    ELSE input256' = r.arr /\ words' = words
          /\ onTokenLine' = (onTokenLine /\ ~HasNL(Used(cin, r.cin)))
    /\ Advance
    /\ UNCHANGED <<closed, cout, out, input, x, y, exit_code, tokenRest>>

Atoi ==
    /\ At("atoi")
    /\ \E v \in atoi(CStr(input256)) : y' = [init |-> TRUE, v |-> v]
    /\ Advance
    /\ UNCHANGED <<instream, closed, cout, out, input, words, x, input256, exit_code>>

\* ------------------------------------------------------------ control flow
\* The closing brace of a block: its locals are gone, and so is the record
\* of what the block wrote.
Leave ==
    /\ At("leave") /\ Advance
    /\ input' = <<>> /\ words' = Rep(Uninit, WordsCap) /\ x' = NoInt
    /\ input256' = Rep(Uninit, InputCap) /\ y' = NoInt
    /\ out' = <<>> /\ onTokenLine' = FALSE /\ tokenRest' = <<>>
    /\ UNCHANGED <<cin, lastRead, closed, cout, exit_code>>

\* Falling off the end of main returns 0.
Ret ==
    /\ At("ret") /\ Advance /\ exit_code' = 0
    /\ UNCHANGED <<instream, closed, cout, out, locals>>

\* ------------------------------------------------------------- the console
TypeLine ==
    /\ ~closed /\ pc # Done /\ cin.buf = <<>>
    /\ \E l \in Typed : cin' = [cin EXCEPT !.buf = @ \o l \o <<NL>>]
    /\ UNCHANGED <<pc, closed, cout, out, locals, exit_code, log, lastRead, onTokenLine, tokenRest>>

EndOfInput ==
    /\ ~closed /\ pc # Done
    /\ \E l \in LastTyped : cin' = [cin EXCEPT !.buf = @ \o l]
    /\ closed' = TRUE
    /\ UNCHANGED <<pc, cout, out, locals, exit_code, log, lastRead, onTokenLine, tokenRest>>

Step ==
    \/ OutLit \/ Endl \/ Put \/ Write \/ OutFloat \/ OutStr \/ OutCStr \/ OutInt
    \/ Precision \/ Width \/ Fill \/ Setf \/ Setw \/ Setfill \/ Setiosflags
    \/ Get \/ ExtractString \/ ExtractInt \/ GetN \/ Getline \/ Atoi
    \/ Leave \/ Ret

Next == Step \/ TypeLine \/ EndOfInput

Spec == Init /\ [][Next]_vars

\* Every statement that can run does run, and the input is finite: unless
\* main has returned first, the end of the input is eventually reached.
FairSpec == Spec /\ WF_vars(Step) /\ WF_vars(EndOfInput)

\* ----------------------------------------------- the bounded write, alone
MaxWidth == 12
MaxPrecision == 6

PcWrite == PcOf("write", 51)

\* ostream::write under every formatting state, not only the one main has
\* when it reaches line 51.
InitWrite ==
    /\ pc = PcWrite
    /\ cout \in [precision : 0..MaxPrecision, width : 0..MaxWidth,
                 fill : {SP, "-"}, left : BOOLEAN]
    /\ cin = [buf |-> <<>>, eof |-> FALSE, fail |-> FALSE]
    /\ closed = FALSE
    /\ out = << [line |-> 46, text |-> <<"x9D">>], [line |-> 48, text |-> <<NL>>] >>
    /\ input = <<>>
    /\ words = Rep(Uninit, WordsCap)
    /\ x = NoInt
    /\ input256 = Rep(Uninit, InputCap)
    /\ y = NoInt
    /\ exit_code = NotExited
    /\ log = [i \in 1..(PcWrite - 1) |-> i]
    /\ lastRead = [pc |-> PcOf("get", 37), consumed |-> <<NL>>]
    /\ onTokenLine = FALSE
    /\ tokenRest = <<>>

NextWrite == Write

WriteSpec == InitWrite /\ [][NextWrite]_vars

\* ================================================================== claims
PcGetN == PcOf("get_n", 120)
PcExtractInt == PcOf("extract_int", 145)
PcGetline160 == PcOf("getline", 160)
PcEndl165 == PcOf("endl", 165)
PcLeave90 == PcOf("leave", 90)

IsGate(i) == i \in 1..Len(Prog) /\ Prog[i].op = "get"

\* C1 (as stated): whenever a pause gate cin.get() has returned having taken
\* input, it has taken the current line to its end, newline included.
C1_Orig ==
    (IsGate(lastRead.pc) /\ lastRead.consumed # <<>>)
        => lastRead.consumed[Len(lastRead.consumed)] = NL

\* C1 (amended): a pause gate cin.get() extracts exactly the next character
\* when the stream is good and a character is there, and extracts nothing,
\* setting failbit, when the stream has failed or the input has ended.
C1_Thm ==
    [][(At("get") /\ pc' = pc + 1)
         => IF Good(cin) /\ cin.buf # <<>>
            THEN cin' = [cin EXCEPT !.buf = Tail(cin.buf)]
            ELSE cin'.buf = cin.buf /\ cin'.fail]_vars

C1_Witness ==
    /\ IsGate(lastRead.pc) /\ lastRead.consumed = <<"a">>
    /\ cin.buf = <<"b", NL>>

\* C2 (as stated): no error crosses a step boundary: while the input is
\* open, the steps after the line-input block start with a stream that has
\* not failed.
C2_Orig ==
    (pc \in {PcOf("get", 136), PcOf("outlit", 144), PcOf("get", 170)} /\ ~closed)
        => ~cin.fail

\* C2 (amended): a failed read stops nothing, main goes on to the next
\* statement, but the failure is not absorbed: failbit stays set, and every
\* later read returns at once having extracted nothing, storing an empty
\* string in its buffer or leaving x as it was.
C2_Thm ==
    [][cin.fail =>
         /\ cin'.fail
         /\ pc' # pc =>
              /\ pc' = pc + 1
              /\ cin'.buf = cin.buf
              /\ At("get_n") => CStr(words') = <<>>
              /\ (At("getline") /\ Prog[pc].line = 130) => CStr(words') = <<>>
              /\ (At("getline") /\ Prog[pc].line = 160) => CStr(input256') = <<>>
              /\ At("extract_int") => x' = x
              /\ At("extract_string") => input' = input]_vars

C2_Witness == pc = Done /\ cin.fail /\ ~closed /\ cin.buf # <<>>

\* C3 (as stated): when the token read and the get() after it have run, the
\* token's line is used up, so that get(words, 64) reads from the next line.
C3_Orig == (pc = PcGetN /\ input # <<>> /\ Good(cin)) => ~onTokenLine

\* C3 (amended): when the newline follows the token at once, the get()
\* absorbs it and get(words, 64) reads from the next line; when a blank or
\* tab follows the token, the get() removes only that character and
\* get(words, 64) takes the rest of the token's own line.
C3_Thm ==
    (/\ pc = PcGetN + 1 /\ input # <<>>
     /\ tokenRest # <<>> /\ tokenRest[Len(tokenRest)] = NL)
        => IF tokenRest = <<NL>>
           THEN ~onTokenLine
           ELSE /\ onTokenLine
                /\ CStr(words) = Take(SubSeq(tokenRest, 2, Len(tokenRest) - 1), WordsCap - 1)

C3_Witness ==
    /\ pc = PcGetN + 1 /\ input # <<>> /\ tokenRest = <<NL>>
    /\ ~onTokenLine /\ CStr(words) = <<"a", "b">>

Terminated(arr) == FirstIn(arr, {NUL}) <= Len(arr)

AfterRead(i) == pc = i + 1 /\ lastRead.pc = i

\* The characters a bounded read stored: what it extracted, less the newline.
Stored ==
    LET c == lastRead.consumed IN
    IF c # <<>> /\ c[Len(c)] = NL THEN Take(c, Len(c) - 1) ELSE c

\* C5: a bounded buffer read never writes outside the array, stores at most
\* capacity-1 characters and then the null character, and the array stays
\* terminated for the echo that follows.
C5_Thm ==
    /\ Len(words) = WordsCap
    /\ Len(input256) = InputCap
    /\ (pc > PcGetN /\ pc <= PcOf("leave", 135)) => Terminated(words)
    /\ (pc > PcGetline160 /\ pc <= PcOf("leave", 169)) => Terminated(input256)
    /\ (AfterRead(PcGetN) \/ AfterRead(PcOf("getline", 130)))
           => CStr(words) = Stored /\ Len(Stored) <= WordsCap - 1
    /\ AfterRead(PcGetline160)
           => CStr(input256) = Stored /\ Len(Stored) <= InputCap - 1

C5_Witness ==
    /\ AfterRead(PcGetN) /\ FirstIn(words, {NUL}) = WordsCap
    /\ cin.buf # <<>> /\ cin.buf[1] # NL

Formatted == {"outlit", "outfloat", "outstr", "outcstr", "outint"}

\* The text of the formatted write on source line l of the block in progress.
WriteAt(l) ==
    LET i == CHOOSE i \in 1..Len(out) : out[i].line = l /\ out[i].text # <<NL>>
    IN out[i].text

\* C6: the field width is 0 after every formatted write; precision 3, fill
\* '-' and left justification stay once set; writes 1 and 2 are unpadded and
\* writes 3 to 6 are 10 characters wide.
C6_Thm ==
    /\ (pc \in 2..Done /\ Prog[pc - 1].op \in Formatted) => cout.width = 0
    /\ pc > PcOf("precision", 64) => cout.precision = 3
    /\ pc > PcOf("fill", 73) => cout.fill = "-"
    /\ pc > PcOf("setf", 79) => cout.left
    /\ pc = PcLeave90 =>
         /\ WriteAt(62) = <<"9", ".", "9", "9", "9", "9", "9">>
         /\ WriteAt(65) = <<"1", "0">>
         /\ \A l \in {69, 74, 82, 87} : Len(WriteAt(l)) = 10

C6_Witness == pc = PcLeave90 /\ Len(out) = 12 /\ cout.width = 0 /\ cout.left

\* C7: the sixth write (manipulators) gives the same text as the fifth
\* (member functions): the value, left-justified, padded to 10 with '-'.
C7_Thm ==
    pc = PcLeave90 =>
        /\ WriteAt(87) = WriteAt(82)
        /\ WriteAt(82) = <<"1", "0">> \o Rep("-", 8)

C7_Witness == pc = PcLeave90 /\ Len(WriteAt(87)) = 10

\* C8 (as stated): the number after "doubled: " is twice the value of the
\* digits at the very start of the line read at line 160, twice 0 when the
\* line does not start with a digit.
C8_Orig ==
    LET ds == Take(Stored, FirstNotIn(Stored, Digit) - 1) IN
    (pc = PcEndl165 /\ Len(ds) < Len(IntMaxDigits))
        => out[Len(out)].text = FormatInt(2 * MagVal(ds))

\* C8 (amended): the buffer holds the line read (at most 255 characters,
\* none when the stream had already failed), and the number after
\* "doubled: " is twice what atoi makes of it: leading whitespace skipped,
\* an optional sign, then the digits, 0 when no digit follows; this for
\* values whose double fits an int.
C8_Thm ==
    pc = PcEndl165 =>
        LET t == CStr(input256)
            sc == ScanInt(Drop(t, FirstNotIn(t, Space) - 1))
            v == IF sc.neg THEN 0 - MagVal(sc.ds) ELSE MagVal(sc.ds)
        IN /\ t = Stored
           /\ (MagFits(sc.ds) /\ MagVal(sc.ds) <= Half)
                  => out[Len(out)].text = FormatInt(2 * v)

C8_Witness ==
    /\ pc = PcEndl165 /\ Stored = <<" ", "7">>
    /\ out[Len(out)].text = <<"1", "4">>

\* C9: write("words cannot describe", 4) emits "word" and nothing else,
\* whatever the formatting state, which it leaves alone.
C9_Thm ==
    [][(At("write") /\ pc' = pc + 1)
         => /\ out' = Append(out, [line |-> 51, text |-> <<"w", "o", "r", "d">>])
            /\ cout' = cout]_vars

C9_Witness ==
    /\ pc = PcWrite + 1 /\ cout.width = MaxWidth /\ cout.fill = "-"
    /\ out[Len(out)].text = <<"w", "o", "r", "d">>

OutputOps == Formatted \cup {"endl", "put", "write"}

\* C10: for an input that ends, main runs every statement once, in program
\* order, writes nothing but what its output statements write, and returns
\* 0, failed reads and an early end of input included.
C10_Thm ==
    /\ [](/\ log = [i \in 1..(pc - 1) |-> i]
          /\ exit_code \in {NotExited, 0}
          /\ \A i \in 1..Len(out) :
                \E j \in 1..(pc - 1) : Prog[j].line = out[i].line /\ Prog[j].op \in OutputOps)
    /\ <>(pc = Done /\ exit_code = 0 /\ Len(log) = Len(Prog))

C10_Witness == pc = Done /\ exit_code = 0 /\ cin.eof /\ cin.fail /\ closed

====
